---------------------------- MODULE Spec2Model ----------------------------
(***************************************************************************)
(* cppbreaker: a circuit breaker (Closed / Half-Open / Open) with a        *)
(* generation counter that discards the outcomes of calls admitted in an   *)
(* earlier accounting epoch.                                               *)
(*                                                                         *)
(* Every public operation (GetState, beforeRequest, afterRequest) runs     *)
(* under std::lock_guard on the breaker's single mutex_, so in Spec each   *)
(* is one atomic action (lock, body, unlock).  Execute releases the mutex  *)
(* between beforeRequest and afterRequest; the wrapped operation runs      *)
(* there, as its own action.  LockSpec is the same program with taking     *)
(* the mutex and the locked body as separate steps.                        *)
(* Time is system_clock::now() in whole time units; the zero timestamp     *)
(* (from_time_t(0)) is 0 and every reading of the clock is >= 1.           *)
(***************************************************************************)
EXTENDS Integers, FiniteSets, Sequences, Bags, TLC

\* ------------------------------------------------------------------ bounds
\* Number of Execute calls that can be in progress at once (callers).
NThreads == 2
\* The clock is read in 1 .. MaxTime.
MaxTime == 5
\* Number of Execute calls made in one run.
MaxCalls == 7

\* --------------------------------------------------------- program values
STATE_CLOSED == 0
STATE_HALF_OPEN == 1
STATE_OPEN == 2
States == {STATE_CLOSED, STATE_HALF_OPEN, STATE_OPEN}

ResultCodeOK == 0
ResultCodeErrTooManyRequests == (-2147483647) - 1
ResultCodeErrOpenState == -1879048192

\* Settings::timeout of the constructor when given as 0 (60 seconds).
DefaultTimeout == 60
\* Settings::max_requests of the constructor when given as 0.
DefaultMaxRequests == 1
\* defaultReadyToTrip trips when consecutive_failures exceeds this.
DefaultTripThreshold == 5

\* The zero timestamp, std::chrono::system_clock::from_time_t(0).
zero == 0

\* A default-constructed Counts, and the value clear() leaves.
ZeroCounts ==
    [requests |-> 0, total_successes |-> 0, total_failures |-> 0,
     consecutive_successes |-> 0, consecutive_failures |-> 0]

\* Counts::onRequest
CountsOnRequest(c) == [c EXCEPT !.requests = @ + 1]

\* onSuccess that forgets total_successes++.
CountsOnSuccess_NoTotal(c) ==
    [c EXCEPT !.consecutive_successes = @ + 1,
              !.consecutive_failures = 0]

\* Counts::onSuccess
CountsOnSuccess(c) ==
    [c EXCEPT !.total_successes = @ + 1,
              !.consecutive_successes = @ + 1,
              !.consecutive_failures = 0]

\* onFailure that forgets consecutive_successes = 0.
CountsOnFailure_KeepsStreak(c) ==
    [c EXCEPT !.total_failures = @ + 1,
              !.consecutive_failures = @ + 1]

\* Counts::onFailure
CountsOnFailure(c) ==
    [c EXCEPT !.total_failures = @ + 1,
              !.consecutive_failures = @ + 1,
              !.consecutive_successes = 0]

\* Counts::clear
CountsClear(c) ==
    [c EXCEPT !.requests = 0, !.total_successes = 0, !.total_failures = 0,
              !.consecutive_successes = 0, !.consecutive_failures = 0]

\* The counters are uint32_t and generation_ is uint64_t; a run makes at
\* most MaxCalls calls, so none of them comes near its range here.

\* ------------------------------------------------------------------ state
VARIABLES
    settings_,    \* Settings, fixed by the constructor
    state_,       \* State
    generation_,  \* uint64_t
    counts_,      \* Counts
    expiry_,      \* time_point; zero = the zero timestamp
    stateChange,  \* the last on_state_change call (name, from, to), or NoChange
    notified,     \* history: how many on_state_change calls were made, and
                  \* the breaker as it was when the last one was made
    evaluated,    \* history: how many ready_to_trip calls the latest step
                  \* made, and the argument and the result of the last
    now,          \* what system_clock::now() returns
    calls,        \* the Execute calls in progress, a bag of activations
    started,      \* history: number of Execute calls made so far
    epoch,        \* history: what calls holding the current generation did
    mutex_        \* std::mutex: "free", or the function whose lock_guard
                  \* holds it

vars == <<settings_, state_, generation_, counts_, expiry_, stateChange,
          notified, evaluated,
          now, calls, started, epoch, mutex_>>

\* No ready_to_trip call has been made.
NotEvaluated == [count |-> 0, arg |-> ZeroCounts, result |-> FALSE]

\* The breaker's mutable members plus the hooks' records, as one value, so
\* that the member functions are operators from breaker to breaker.  An
\* operation begins with no ready_to_trip call made.
Self ==
    [state |-> state_, generation |-> generation_, counts |-> counts_,
     expiry |-> expiry_, stateChange |-> stateChange,
     notified |-> notified, evaluated |-> NotEvaluated]

\* The breaker as the latest operation left it, the ready_to_trip calls
\* of that operation included.
Stored == [Self EXCEPT !.evaluated = evaluated]

Store(cb) ==
    /\ state_' = cb.state
    /\ generation_' = cb.generation
    /\ counts_' = cb.counts
    /\ expiry_' = cb.expiry
    /\ stateChange' = cb.stateChange
    /\ notified' = cb.notified
    /\ evaluated' = cb.evaluated

NoChange == <<>>

\* No on_state_change call has been made.
NotNotified ==
    [count |-> 0, state |-> STATE_CLOSED, generation |-> 0,
     counts |-> ZeroCounts]

\* One more on_state_change call, made when the breaker is cb.
Notify(cb) ==
    [count |-> cb.notified.count + 1, state |-> cb.state,
     generation |-> cb.generation, counts |-> cb.counts]

\* An activation of Execute: where it is (pc), its local `generation`
\* (token) and its tuple `ret` as (val, code).  Callers are anonymous: the
\* calls in progress form a bag of at most NThreads activations.
\*   "before" it is inside beforeRequest, holding the mutex (LockSpec)
\*   "req"   beforeRequest admitted it, req() has not returned
\*   "after" req() has returned ret, afterRequest has not run
\*   "report" it is inside afterRequest, holding the mutex (LockSpec)
\*   "ret"   Execute has returned ret to the caller
Activation(p, g, v, c) == [pc |-> p, token |-> g, val |-> v, code |-> c]

InProgress == BagToSet(calls)
Add(c) == calls' = calls (+) SetToBag({c})
Replace(c, d) == calls' = (calls (-) SetToBag({c})) (+) SetToBag({d})
Remove(c) == calls' = calls (-) SetToBag({c})

\* History of the current generation, kept from the tokens alone: how many
\* calls were handed the current generation as their token (admitted), how
\* many calls reported success / failure while their token was the current
\* generation, and how many reported with a token that was no longer the
\* generation when their afterRequest began (late), and the clock reading
\* with which the generation began (began), and the states the breaker
\* was in when it admitted the calls of this generation (states).  It
\* starts afresh whenever generation_ changes.
NewEpoch(t) ==
    [admitted |-> 0, succeeded |-> 0, failed |-> 0, late |-> 0, began |-> t,
     states |-> {}]

Tally(what, g) ==
    LET base == IF generation_' = generation_ THEN epoch ELSE NewEpoch(now)
    IN  epoch' = CASE what = "none" -> base
                   [] what = "admitted" /\ g = generation_' ->
                        [base EXCEPT !.admitted = @ + 1,
                                     !.states = @ \cup {state_'}]
                   [] g = generation_' -> [base EXCEPT ![what] = @ + 1]
                   [] what # "admitted" /\ g # generation_ ->
                        [base EXCEPT !.late = @ + 1]
                   [] OTHER -> base

\* -------------------------------------------------------- policy hooks
\* defaultReadyToTrip comparing by >= instead of >.
defaultReadyToTrip_OffByOne(c) ==
    c.consecutive_failures >= DefaultTripThreshold

\* CircuitBreaker::defaultReadyToTrip
defaultReadyToTrip(c) == c.consecutive_failures > DefaultTripThreshold

\* The custom predicate of the tests: numReqs >= 3 and
\* double(total_failures) / double(numReqs) >= 0.6.
ratioReadyToTrip(c) ==
    c.requests >= 3 /\ 10 * c.total_failures >= 6 * c.requests

\* settings_.ready_to_trip(counts_)
ready_to_trip(c) ==
    IF settings_.ready_to_trip = "default" THEN defaultReadyToTrip(c)
    ELSE ratioReadyToTrip(c)

\* One more settings_.ready_to_trip call, made with the counts c.
Evaluate(cb, c) ==
    [count |-> cb.evaluated.count + 1, arg |-> c, result |-> ready_to_trip(c)]

\* ------------------------------------------------------ member functions
\* toNewGeneration that forgets counts_.clear().
toNewGeneration_NoClear(cb, t) ==
    [cb EXCEPT
        !.generation = @ + 1,
        !.expiry =
            CASE cb.state = STATE_CLOSED ->
                    IF settings_.interval = 0 THEN zero
                    ELSE t + settings_.interval
              [] cb.state = STATE_OPEN -> t + settings_.timeout
              [] OTHER -> zero]

\* toNewGeneration computing the Closed expiry without now.
toNewGeneration_ExpiryWithoutNow(cb, t) ==
    [cb EXCEPT
        !.generation = @ + 1,
        !.counts = CountsClear(@),
        !.expiry =
            CASE cb.state = STATE_CLOSED -> settings_.interval
              [] cb.state = STATE_OPEN -> t + settings_.timeout
              [] OTHER -> zero]

\* toNewGeneration without the default case of its switch.
toNewGeneration_NoDefaultCase(cb, t) ==
    [cb EXCEPT
        !.generation = @ + 1,
        !.counts = CountsClear(@),
        !.expiry =
            CASE cb.state = STATE_CLOSED ->
                    IF settings_.interval = 0 THEN zero
                    ELSE t + settings_.interval
              [] cb.state = STATE_OPEN -> t + settings_.timeout
              [] OTHER -> @]

\* CircuitBreaker::toNewGeneration
toNewGeneration(cb, t) ==
    [cb EXCEPT
        !.generation = @ + 1,
        !.counts = CountsClear(@),
        !.expiry =
            CASE cb.state = STATE_CLOSED ->
                    IF settings_.interval = 0 THEN zero
                    ELSE t + settings_.interval
              [] cb.state = STATE_OPEN -> t + settings_.timeout
              [] OTHER -> zero]

\* setState calling the hook before it begins the new generation.
setState_HookFirst(cb, st, t) ==
    IF cb.state = st THEN cb
    ELSE LET prev == cb.state
             sw == [cb EXCEPT !.state = st]
             told == IF settings_.on_state_change
                     THEN [sw EXCEPT
                             !.stateChange = <<settings_.name, prev, st>>,
                             !.notified = Notify(sw)]
                     ELSE sw
         IN  toNewGeneration(told, t)

\* setState that switches the state without beginning a new generation.
setState_KeepsGeneration(cb, st, t) ==
    IF cb.state = st THEN cb
    ELSE LET prev == cb.state
             nxt == [cb EXCEPT !.state = st]
         IN  IF settings_.on_state_change
             THEN [nxt EXCEPT !.stateChange = <<settings_.name, prev, st>>,
                              !.notified = Notify(nxt)]
             ELSE nxt

\* CircuitBreaker::setState
setState(cb, st, t) ==
    IF cb.state = st THEN cb
    ELSE LET prev == cb.state
             nxt == toNewGeneration([cb EXCEPT !.state = st], t)
         IN  IF settings_.on_state_change
             THEN [nxt EXCEPT !.stateChange = <<settings_.name, prev, st>>,
                              !.notified = Notify(nxt)]
             ELSE nxt

\* currentState without the test that the Closed expiry is not zero.
currentState_NoZeroExpiryCheck(cb, t) ==
    CASE cb.state = STATE_CLOSED ->
            IF cb.expiry < t THEN toNewGeneration(cb, t) ELSE cb
      [] cb.state = STATE_OPEN ->
            IF cb.expiry < t THEN setState(cb, STATE_HALF_OPEN, t) ELSE cb
      [] OTHER -> cb

\* currentState leaving Open already at the expiry instant (<= for <).
currentState_OpenExpiryInclusive(cb, t) ==
    CASE cb.state = STATE_CLOSED ->
            IF cb.expiry # zero /\ cb.expiry < t
            THEN toNewGeneration(cb, t) ELSE cb
      [] cb.state = STATE_OPEN ->
            IF cb.expiry <= t THEN setState(cb, STATE_HALF_OPEN, t) ELSE cb
      [] OTHER -> cb

\* currentState with a time-driven case for Half-Open too.
currentState_HalfOpenTimesOut(cb, t) ==
    CASE cb.state = STATE_CLOSED ->
            IF cb.expiry # zero /\ cb.expiry < t
            THEN toNewGeneration(cb, t) ELSE cb
      [] cb.state = STATE_OPEN ->
            IF cb.expiry < t THEN setState(cb, STATE_HALF_OPEN, t) ELSE cb
      [] OTHER ->
            IF cb.expiry < t THEN setState(cb, STATE_OPEN, t) ELSE cb

\* currentState closing the breaker, instead of half-opening it, when the
\* Open timeout has passed.
currentState_OpenToClosed(cb, t) ==
    CASE cb.state = STATE_CLOSED ->
            IF cb.expiry # zero /\ cb.expiry < t
            THEN toNewGeneration(cb, t) ELSE cb
      [] cb.state = STATE_OPEN ->
            IF cb.expiry < t THEN setState(cb, STATE_CLOSED, t) ELSE cb
      [] OTHER -> cb

\* CircuitBreaker::currentState: the breaker after the lazy time-driven
\* check; the function returns its generation and stores its state in *st.
currentState(cb, t) ==
    CASE cb.state = STATE_CLOSED ->
            IF cb.expiry # zero /\ cb.expiry < t
            THEN toNewGeneration(cb, t) ELSE cb
      [] cb.state = STATE_OPEN ->
            IF cb.expiry < t THEN setState(cb, STATE_HALF_OPEN, t) ELSE cb
      [] OTHER -> cb

\* onSuccess closing the breaker only above max_requests successes.
onSuccess_OffByOne(cb, st, t) ==
    CASE st = STATE_CLOSED ->
            [cb EXCEPT !.counts = CountsOnSuccess(@)]
      [] st = STATE_HALF_OPEN ->
            LET c1 == [cb EXCEPT !.counts = CountsOnSuccess(@)]
            IN  IF c1.counts.consecutive_successes > settings_.max_requests
                THEN setState(c1, STATE_CLOSED, t) ELSE c1
      [] OTHER -> cb

\* CircuitBreaker::onSuccess
onSuccess(cb, st, t) ==
    CASE st = STATE_CLOSED ->
            [cb EXCEPT !.counts = CountsOnSuccess(@)]
      [] st = STATE_HALF_OPEN ->
            LET c1 == [cb EXCEPT !.counts = CountsOnSuccess(@)]
            IN  IF c1.counts.consecutive_successes >= settings_.max_requests
                THEN setState(c1, STATE_CLOSED, t) ELSE c1
      [] OTHER -> cb

\* onFailure treating a Half-Open failure like a Closed one.
onFailure_HalfOpenLikeClosed(cb, st, t) ==
    CASE st \in {STATE_CLOSED, STATE_HALF_OPEN} ->
            LET c1 == [cb EXCEPT !.counts = CountsOnFailure(@)]
                c2 == [c1 EXCEPT !.evaluated = Evaluate(c1, c1.counts)]
            IN  IF c2.evaluated.result
                THEN setState(c2, STATE_OPEN, t) ELSE c2
      [] OTHER -> cb

\* onFailure asking ready_to_trip before it counts the failure.
onFailure_AsksBeforeCounting(cb, st, t) ==
    CASE st = STATE_CLOSED ->
            LET c1 == [cb EXCEPT !.evaluated = Evaluate(cb, cb.counts)]
                c2 == [c1 EXCEPT !.counts = CountsOnFailure(@)]
            IN  IF c2.evaluated.result
                THEN setState(c2, STATE_OPEN, t) ELSE c2
      [] st = STATE_HALF_OPEN -> setState(cb, STATE_OPEN, t)
      [] OTHER -> cb

\* onFailure without the Half-Open case: a failed trial call is ignored.
onFailure_HalfOpenIgnored(cb, st, t) ==
    CASE st = STATE_CLOSED ->
            LET c1 == [cb EXCEPT !.counts = CountsOnFailure(@)]
                c2 == [c1 EXCEPT !.evaluated = Evaluate(c1, c1.counts)]
            IN  IF c2.evaluated.result
                THEN setState(c2, STATE_OPEN, t) ELSE c2
      [] OTHER -> cb

\* CircuitBreaker::onFailure
onFailure(cb, st, t) ==
    CASE st = STATE_CLOSED ->
            LET c1 == [cb EXCEPT !.counts = CountsOnFailure(@)]
                c2 == [c1 EXCEPT !.evaluated = Evaluate(c1, c1.counts)]
            IN  IF c2.evaluated.result
                THEN setState(c2, STATE_OPEN, t) ELSE c2
      [] st = STATE_HALF_OPEN -> setState(cb, STATE_OPEN, t)
      [] OTHER -> cb

\* beforeRequest without the rejection in the Open state.
beforeRequest_NoOpenCheck(cb, t) ==
    LET c1 == currentState(cb, t)
        st == c1.state
    IN  IF st = STATE_HALF_OPEN
           /\ c1.counts.requests >= settings_.max_requests
        THEN [cb |-> c1, gen |-> c1.generation,
              code |-> ResultCodeErrTooManyRequests]
        ELSE [cb |-> [c1 EXCEPT !.counts = CountsOnRequest(@)],
              gen |-> c1.generation, code |-> ResultCodeOK]

\* beforeRequest with the Half-Open quota compared by > instead of >=.
beforeRequest_QuotaOffByOne(cb, t) ==
    LET c1 == currentState(cb, t)
        st == c1.state
    IN  IF st = STATE_OPEN
        THEN [cb |-> c1, gen |-> c1.generation, code |-> ResultCodeErrOpenState]
        ELSE IF st = STATE_HALF_OPEN
                /\ c1.counts.requests > settings_.max_requests
        THEN [cb |-> c1, gen |-> c1.generation,
              code |-> ResultCodeErrTooManyRequests]
        ELSE [cb |-> [c1 EXCEPT !.counts = CountsOnRequest(@)],
              gen |-> c1.generation, code |-> ResultCodeOK]

\* beforeRequest handing out the generation read before the lazy check.
beforeRequest_TokenBeforeCheck(cb, t) ==
    LET c1 == currentState(cb, t)
        st == c1.state
    IN  IF st = STATE_OPEN
        THEN [cb |-> c1, gen |-> cb.generation, code |-> ResultCodeErrOpenState]
        ELSE IF st = STATE_HALF_OPEN
                /\ c1.counts.requests >= settings_.max_requests
        THEN [cb |-> c1, gen |-> cb.generation,
              code |-> ResultCodeErrTooManyRequests]
        ELSE [cb |-> [c1 EXCEPT !.counts = CountsOnRequest(@)],
              gen |-> cb.generation, code |-> ResultCodeOK]

\* beforeRequest counting the request before it looks at the state.
beforeRequest_CountsBeforeReject(cb, t) ==
    LET c1 == currentState(cb, t)
        st == c1.state
        c2 == [c1 EXCEPT !.counts = CountsOnRequest(@)]
    IN  IF st = STATE_OPEN
        THEN [cb |-> c2, gen |-> c1.generation, code |-> ResultCodeErrOpenState]
        ELSE IF st = STATE_HALF_OPEN
                /\ c1.counts.requests >= settings_.max_requests
        THEN [cb |-> c2, gen |-> c1.generation,
              code |-> ResultCodeErrTooManyRequests]
        ELSE [cb |-> c2, gen |-> c1.generation, code |-> ResultCodeOK]

\* CircuitBreaker::beforeRequest: the breaker it leaves, *gen and the code.
beforeRequest(cb, t) ==
    LET c1 == currentState(cb, t)
        st == c1.state
    IN  IF st = STATE_OPEN
        THEN [cb |-> c1, gen |-> c1.generation, code |-> ResultCodeErrOpenState]
        ELSE IF st = STATE_HALF_OPEN
                /\ c1.counts.requests >= settings_.max_requests
        THEN [cb |-> c1, gen |-> c1.generation,
              code |-> ResultCodeErrTooManyRequests]
        ELSE [cb |-> [c1 EXCEPT !.counts = CountsOnRequest(@)],
              gen |-> c1.generation, code |-> ResultCodeOK]

\* afterRequest without the comparison of the token with the generation.
afterRequest_NoGenerationCheck(cb, before, success, t) ==
    LET c1 == currentState(cb, t)
    IN  IF success THEN onSuccess(c1, c1.state, t)
        ELSE onFailure(c1, c1.state, t)

\* CircuitBreaker::afterRequest
afterRequest(cb, before, success, t) ==
    LET c1 == currentState(cb, t)
    IN  IF c1.generation # before THEN c1
        ELSE IF success THEN onSuccess(c1, c1.state, t)
        ELSE onFailure(c1, c1.state, t)

\* ------------------------------------------------------------ construction
\* The Settings values a breaker is constructed with, as the caller gives
\* them (0 and "default" are the values the constructor replaces).
DefaultInputs ==
    [name : {""}, max_requests : {0}, interval : {0}, timeout : {0, 1},
     ready_to_trip : {"default"}, on_state_change : {FALSE}]

CustomInputs ==
    [name : {"cb"}, max_requests : {2}, interval : {0, 2}, timeout : {1},
     ready_to_trip : {"ratio"}, on_state_change : {TRUE}]

SettingsInputs == DefaultInputs \cup CustomInputs

\* The constructor without the replacement of a zero timeout.
ConstructSettings_KeepsZeroTimeout(st) ==
    [st EXCEPT !.max_requests = IF @ = 0 THEN DefaultMaxRequests ELSE @]

\* CircuitBreaker::CircuitBreaker, the settings part.
ConstructSettings(st) ==
    [st EXCEPT
        !.max_requests = IF @ = 0 THEN DefaultMaxRequests ELSE @,
        !.timeout = IF @ = 0 THEN DefaultTimeout ELSE @]

Init ==
    /\ now = 1
    /\ \E st \in SettingsInputs : settings_ = ConstructSettings(st)
    /\ LET cb0 == [state |-> STATE_CLOSED, generation |-> 0,
                   counts |-> ZeroCounts, expiry |-> zero,
                   stateChange |-> NoChange, notified |-> NotNotified,
                   evaluated |-> NotEvaluated]
           cb1 == toNewGeneration(cb0, now)
       IN  /\ state_ = cb1.state
           /\ generation_ = cb1.generation
           /\ counts_ = cb1.counts
           /\ expiry_ = cb1.expiry
           /\ stateChange = cb1.stateChange
           /\ notified = cb1.notified
           /\ evaluated = cb1.evaluated
    /\ calls = EmptyBag
    /\ started = 0
    /\ epoch = NewEpoch(now)
    /\ mutex_ = "free"

\* ---------------------------------------------------------------- actions
\* What a wrapped operation may return: (result, code); code 0 is success.
OpResults == {[val |-> 1, code |-> 0], [val |-> 1, code |-> 100]}

\* Execute, first part: beforeRequest under the mutex, and the early return
\* of (Result_(), err) when it rejects.
BeforeRequest ==
    /\ mutex_ = "free"
    /\ BagCardinality(calls) < NThreads
    /\ started < MaxCalls
    /\ started' = started + 1
    /\ LET r == beforeRequest(Self, now)
       IN  /\ Store(r.cb)
           /\ IF r.code # ResultCodeOK
              THEN Add(Activation("ret", 0, 0, r.code)) /\ Tally("none", r.gen)
              ELSE Add(Activation("req", r.gen, 0, 0))
                   /\ Tally("admitted", r.gen)
    /\ UNCHANGED <<settings_, now, mutex_>>

\* Execute, ret = req(): the wrapped operation, outside the mutex.
RunRequest ==
    /\ \E c \in InProgress, r \in OpResults :
          /\ c.pc = "req"
          /\ Replace(c, Activation("after", c.token, r.val, r.code))
    /\ evaluated' = NotEvaluated
    /\ UNCHANGED <<settings_, state_, generation_, counts_, expiry_,
                   stateChange, notified, now, started, epoch, mutex_>>

\* Execute reporting every returned call as a success, whatever its code.
AfterRequest_IgnoresCode ==
    /\ mutex_ = "free"
    /\ \E c \in InProgress :
          /\ c.pc = "after"
          /\ Store(afterRequest(Self, c.token, TRUE, now))
          /\ Replace(c, Activation("ret", 0, c.val, c.code))
          /\ Tally(IF c.code = 0 THEN "succeeded" ELSE "failed", c.token)
    /\ UNCHANGED <<settings_, now, started, mutex_>>

\* Execute, last part: afterRequest under the mutex, then return ret.
AfterRequest ==
    /\ mutex_ = "free"
    /\ \E c \in InProgress :
          /\ c.pc = "after"
          /\ Store(afterRequest(Self, c.token, c.code = 0, now))
          /\ Replace(c, Activation("ret", 0, c.val, c.code))
          /\ Tally(IF c.code = 0 THEN "succeeded" ELSE "failed", c.token)
    /\ UNCHANGED <<settings_, now, started, mutex_>>

\* The caller takes the tuple Execute returned; the activation is over.
Return ==
    /\ \E c \in InProgress : c.pc = "ret" /\ Remove(c)
    /\ evaluated' = NotEvaluated
    /\ UNCHANGED <<settings_, state_, generation_, counts_, expiry_,
                   stateChange, notified, now, started, epoch, mutex_>>

\* CircuitBreaker::GetState
GetState ==
    /\ mutex_ = "free"
    /\ Store(currentState(Self, now))
    /\ Tally("none", 0)
    /\ UNCHANGED <<settings_, now, calls, started, mutex_>>

\* The clock advances by one time unit.  (With the 60-unit default timeout
\* an Open breaker does not expire before MaxTime; the settings with
\* timeout 1 go through the expiry.)
Tick ==
    /\ now < MaxTime
    /\ now' = now + 1
    /\ evaluated' = NotEvaluated
    /\ UNCHANGED <<settings_, state_, generation_, counts_, expiry_,
                   stateChange, notified, calls, started, epoch, mutex_>>

Next ==
    \/ BeforeRequest
    \/ RunRequest
    \/ AfterRequest
    \/ Return
    \/ GetState
    \/ Tick

Spec == Init /\ [][Next]_vars

\* ------------------------------------------- the mutex, step by step
\* The same operations with the lock_guard made visible: taking the mutex
\* is one step, and the body of the function up to its return, where the
\* lock_guard is destroyed and the mutex released, is another.  The clock
\* is read inside the body.

\* beforeRequest, std::lock_guard<std::mutex> lock(mutex_)
LockBeforeRequest ==
    /\ mutex_ = "free"
    /\ BagCardinality(calls) < NThreads
    /\ started < MaxCalls
    /\ started' = started + 1
    /\ mutex_' = "beforeRequest"
    /\ Add(Activation("before", 0, 0, 0))
    /\ evaluated' = NotEvaluated
    /\ UNCHANGED <<settings_, state_, generation_, counts_, expiry_,
                   stateChange, notified, now, epoch>>

\* beforeRequest whose lock outlives its return (as if Execute held it).
BodyBeforeRequest_KeepsLock ==
    /\ mutex_ = "beforeRequest"
    /\ mutex_' = mutex_
    /\ \E c \in InProgress :
          /\ c.pc = "before"
          /\ LET r == beforeRequest(Self, now)
             IN  /\ Store(r.cb)
                 /\ IF r.code # ResultCodeOK
                    THEN /\ Replace(c, Activation("ret", 0, 0, r.code))
                         /\ Tally("none", r.gen)
                    ELSE /\ Replace(c, Activation("req", r.gen, 0, 0))
                         /\ Tally("admitted", r.gen)
    /\ UNCHANGED <<settings_, now, started>>

\* beforeRequest from the clock reading to its return, and Execute up to
\* the early return or the call of req().
BodyBeforeRequest ==
    /\ mutex_ = "beforeRequest"
    /\ mutex_' = "free"
    /\ \E c \in InProgress :
          /\ c.pc = "before"
          /\ LET r == beforeRequest(Self, now)
             IN  /\ Store(r.cb)
                 /\ IF r.code # ResultCodeOK
                    THEN /\ Replace(c, Activation("ret", 0, 0, r.code))
                         /\ Tally("none", r.gen)
                    ELSE /\ Replace(c, Activation("req", r.gen, 0, 0))
                         /\ Tally("admitted", r.gen)
    /\ UNCHANGED <<settings_, now, started>>

\* afterRequest, std::lock_guard<std::mutex> lock(mutex_)
LockAfterRequest ==
    /\ mutex_ = "free"
    /\ mutex_' = "afterRequest"
    /\ \E c \in InProgress :
          c.pc = "after" /\ Replace(c, [c EXCEPT !.pc = "report"])
    /\ evaluated' = NotEvaluated
    /\ UNCHANGED <<settings_, state_, generation_, counts_, expiry_,
                   stateChange, notified, now, started, epoch>>

\* afterRequest from the clock reading to its return.
BodyAfterRequest ==
    /\ mutex_ = "afterRequest"
    /\ mutex_' = "free"
    /\ \E c \in InProgress :
          /\ c.pc = "report"
          /\ Store(afterRequest(Self, c.token, c.code = 0, now))
          /\ Replace(c, Activation("ret", 0, c.val, c.code))
          /\ Tally(IF c.code = 0 THEN "succeeded" ELSE "failed", c.token)
    /\ UNCHANGED <<settings_, now, started>>

\* GetState, std::lock_guard<std::mutex> lock(mutex_)
LockGetState ==
    /\ mutex_ = "free"
    /\ mutex_' = "GetState"
    /\ evaluated' = NotEvaluated
    /\ UNCHANGED <<settings_, state_, generation_, counts_, expiry_,
                   stateChange, notified, now, calls, started, epoch>>

\* GetState from the clock reading to its return.
BodyGetState ==
    /\ mutex_ = "GetState"
    /\ mutex_' = "free"
    /\ Store(currentState(Self, now))
    /\ Tally("none", 0)
    /\ UNCHANGED <<settings_, now, calls, started>>

LockNext ==
    \/ LockBeforeRequest
    \/ BodyBeforeRequest
    \/ RunRequest
    \/ LockAfterRequest
    \/ BodyAfterRequest
    \/ Return
    \/ LockGetState
    \/ BodyGetState
    \/ Tick

\* ------------------------------------------------ abandoned calls
\* An admitted call ends without afterRequest: req() never returns to
\* Execute (it throws, or its thread stops), so the activation is gone and
\* the breaker is not told anything.
Abandon ==
    /\ \E c \in InProgress : c.pc = "req" /\ Remove(c)
    /\ evaluated' = NotEvaluated
    /\ UNCHANGED <<settings_, state_, generation_, counts_, expiry_,
                   stateChange, notified, now, started, epoch, mutex_>>

AbandonNext == Next \/ Abandon

AbandonSpec == Init /\ [][AbandonNext]_vars

\* The breakers of DefaultInputs (what the mutex does is the same for
\* every Settings).
LockInit == Init /\ settings_.ready_to_trip = "default"

LockSpec == LockInit /\ [][LockNext]_vars

\* ------------------------------------------------- reading the steps
\* The step is a call of beforeRequest (an Execute call begins).
IsBeforeRequest == started' = started + 1

\* The step admits a call and hands it the token g.
Admits(g) == calls' = calls (+) SetToBag({Activation("req", g, 0, 0)})

\* The step rejects a call: Execute returns (Result_(), code) at once.
Rejects(code) == calls' = calls (+) SetToBag({Activation("ret", 0, 0, code)})

\* The step is the afterRequest of the activation c.
IsAfterRequest(c) ==
    /\ c \in InProgress
    /\ c.pc = "after"
    /\ calls' = (calls (-) SetToBag({c}))
                    (+) SetToBag({Activation("ret", 0, c.val, c.code)})

\* The step reads the clock and the breaker under the mutex: GetState,
\* beforeRequest or afterRequest.
IsAccess ==
    \/ IsBeforeRequest
    \/ \E c \in InProgress : IsAfterRequest(c)
    \/ /\ calls' = calls /\ now' = now /\ started' = started
       /\ Self' # Self

\* The lazy time-driven check is due: an access would change the breaker.
ExpiryPassed == expiry_ < now

\* ------------------------------------------------------------------ C1
\* C1 (step part): when afterRequest runs for a call whose token differs
\* from the generation the lazy check of currentState leaves, it applies
\* nothing of the outcome: state, generation, counts, expiry (and the hook
\* record) are exactly what the lazy check left.
C1_StaleDropped ==
    \A c \in InProgress :
        (IsAfterRequest(c) /\ currentState(Self, now).generation # c.token)
            => Self' = currentState(Self, now)

\* C1 (state part): the success and failure totals of the current
\* generation count only outcomes reported by calls that were admitted in
\* this generation (whose token is the current generation).
C1_OnlyOwnOutcomes ==
    /\ counts_.total_successes <= epoch.succeeded
    /\ counts_.total_failures <= epoch.failed

\* C1: stale outcomes are discarded, under every interleaving.
C1_StaleOutcomesDiscarded ==
    [][C1_StaleDropped]_vars /\ []C1_OnlyOwnOutcomes

\* C1 witness: a call admitted in an earlier generation has reported after
\* the generation moved on, while calls of the new generation are being
\* counted, and the counts hold the new generation's calls only.
C1_Witness ==
    /\ epoch.late > 0
    /\ epoch.admitted > 0
    /\ counts_.requests = epoch.admitted
    /\ counts_.total_successes = epoch.succeeded
    /\ counts_.total_failures = epoch.failed

\* ------------------------------------------------------------------ C2
\* C2 (step part): a beforeRequest that finds the breaker Half-Open admits
\* the call exactly when fewer than max_requests calls were admitted in
\* this Half-Open generation so far (reported or not), and otherwise
\* rejects it with ErrTooManyRequests and leaves the counts as they were.
C2_QuotaStep ==
    (IsBeforeRequest /\ state_' = STATE_HALF_OPEN) =>
        LET k == IF generation_' = generation_ THEN epoch.admitted ELSE 0
        IN  IF k < settings_.max_requests
            THEN Admits(generation_') /\ counts_'.requests = k + 1
            ELSE /\ Rejects(ResultCodeErrTooManyRequests)
                 /\ counts_' = counts_
                 /\ generation_' = generation_

\* C2 (state part): in every Half-Open state requests <= max_requests.
C2_QuotaBound ==
    state_ = STATE_HALF_OPEN => counts_.requests <= settings_.max_requests

\* C2: the Half-Open trial quota, under every interleaving.
C2_HalfOpenQuota == [][C2_QuotaStep]_vars /\ []C2_QuotaBound

\* C2 witness: Half-Open with max_requests = 2 trial calls admitted, one of
\* them still in flight, and a further attempt rejected with the quota code.
C2_Witness ==
    /\ state_ = STATE_HALF_OPEN
    /\ settings_.max_requests = 2
    /\ counts_.requests = 2
    /\ \E c \in InProgress : c.pc = "req" /\ c.token = generation_
    /\ \E c \in InProgress :
          c.pc = "ret" /\ c.code = ResultCodeErrTooManyRequests

\* ------------------------------------------------------------------ C3
\* C3 (step part): a beforeRequest that finds the breaker Open after the
\* lazy check (Open, expiry not yet passed) returns ErrOpenState and leaves
\* state, generation, counts and expiry unchanged.
C3_OpenStep ==
    (IsBeforeRequest
       /\ (state_' = STATE_OPEN \/ (state_ = STATE_OPEN /\ ~ExpiryPassed)))
      => (Rejects(ResultCodeErrOpenState) /\ Self' = Self)

\* C3 (state part): no call is admitted while the breaker is Open: no call
\* holds the token of an Open generation.
C3_NoneAdmittedOpen ==
    state_ = STATE_OPEN =>
        /\ epoch.admitted = 0
        /\ \A c \in InProgress : c.pc = "ret" \/ c.token # generation_

\* C3: Open rejects.
C3_OpenRejects == [][C3_OpenStep]_vars /\ []C3_NoneAdmittedOpen

\* C3 witness: the breaker is Open and a call has been rejected with
\* ErrOpenState.
C3_Witness ==
    /\ state_ = STATE_OPEN
    /\ counts_ = ZeroCounts
    /\ \E c \in InProgress :
          c.pc = "ret" /\ c.code = ResultCodeErrOpenState /\ c.val = 0

\* ------------------------------------------------------------------ C4
\* The step is the report of a failure by a call whose token is still the
\* generation after the lazy check (a failure that is not stale).
IsFreshFailure ==
    \E c \in InProgress :
        /\ IsAfterRequest(c)
        /\ c.code # 0
        /\ c.token = currentState(Self, now).generation

\* C4 (step part), with the default trip predicate: the breaker leaves
\* Closed only for Open, only in the report of a failure that is not stale
\* and finds consecutive_failures = 5 (so makes it 6), and that step resets
\* the counts to zero, advances the generation and sets expiry to
\* now + timeout (non-zero); and every such report does trip the breaker.
C4_TripStep ==
    (settings_.ready_to_trip = "default" /\ state_ = STATE_CLOSED) =>
        /\ state_' # STATE_CLOSED =>
              /\ state_' = STATE_OPEN
              /\ IsFreshFailure
              /\ counts_.consecutive_failures = 5
              /\ counts_' = ZeroCounts
              /\ generation_' = generation_ + 1
              /\ expiry_' = now + settings_.timeout
              /\ expiry_' # zero
        /\ (IsFreshFailure
              /\ currentState(Self, now).counts.consecutive_failures = 5)
             => state_' = STATE_OPEN

\* C4 (state part): Closed is never seen with more than 5 failures in a row.
C4_NotLater ==
    (settings_.ready_to_trip = "default" /\ state_ = STATE_CLOSED)
        => counts_.consecutive_failures <= 5

\* C4: with the default predicate the breaker trips exactly at the 6th
\* failure in a row.
C4_DefaultTrip == [][C4_TripStep]_vars /\ []C4_NotLater

\* C4 witness: the default breaker has tripped after 7 calls (a success and
\* then six failures, none reported late): Open, counts reset, expiry set
\* timeout ahead.
C4_Witness ==
    /\ settings_.ready_to_trip = "default"
    /\ state_ = STATE_OPEN
    /\ generation_ = 2
    /\ started = 7
    /\ calls = EmptyBag
    /\ counts_ = ZeroCounts
    /\ expiry_ = now + settings_.timeout

\* ------------------------------------------------------------------ C5
\* A failure that is not stale, reported while Half-Open, opens the breaker
\* whatever the counts are: generation + 1, counts zero, expiry = now +
\* timeout.
C5_HalfOpenFailureStep ==
    (state_ = STATE_HALF_OPEN /\ IsFreshFailure) =>
        /\ state_' = STATE_OPEN
        /\ generation_' = generation_ + 1
        /\ counts_' = ZeroCounts
        /\ expiry_' = now + settings_.timeout

\* C5: any single failure that is not stale, reported while Half-Open,
\* moves the breaker directly to Open, however many trial successes were
\* recorded: generation + 1, counts zero, expiry = now + timeout.
C5_HalfOpenFailureOpens == [][C5_HalfOpenFailureStep]_vars

\* C5 witness: of the two trial calls of the first Half-Open generation one
\* reported success and then the other reported failure (neither late):
\* the breaker is Open again, by the transition Half-Open -> Open.
C5_Witness ==
    /\ state_ = STATE_OPEN
    /\ generation_ = 4
    /\ started = 5
    /\ stateChange = <<"cb", STATE_HALF_OPEN, STATE_OPEN>>
    /\ epoch.late = 0
    /\ counts_ = ZeroCounts
    /\ expiry_ = now + settings_.timeout
    /\ \E c \in InProgress : c.pc = "ret" /\ c.val = 1 /\ c.code = 0
    /\ \E c \in InProgress : c.pc = "ret" /\ c.val = 1 /\ c.code # 0

\* ------------------------------------------------------------------ C6
\* The step is the report of a success by a call whose token is still the
\* generation after the lazy check (a success that is not stale).
IsFreshSuccess ==
    \E c \in InProgress :
        /\ IsAfterRequest(c)
        /\ c.code = 0
        /\ c.token = currentState(Self, now).generation

\* The report of a success that is not stale, made while Half-Open,
\* adds one to total_successes and consecutive_successes (and zeroes
\* consecutive_failures); the breaker stays Half-Open while the streak is
\* below max_requests and moves to Closed in the report that makes it
\* max_requests: generation + 1, counts zero, expiry by the Closed rule.
C6_HalfOpenSuccessStep ==
    (state_ = STATE_HALF_OPEN /\ IsFreshSuccess) =>
        LET streak == counts_.consecutive_successes + 1
        IN  /\ streak <= settings_.max_requests
            /\ IF streak = settings_.max_requests
               THEN /\ state_' = STATE_CLOSED
                    /\ generation_' = generation_ + 1
                    /\ counts_' = ZeroCounts
                    /\ expiry_' = IF settings_.interval = 0 THEN zero
                                  ELSE now + settings_.interval
               ELSE /\ state_' = STATE_HALF_OPEN
                    /\ generation_' = generation_
                    /\ expiry_' = expiry_
                    /\ counts_' =
                         [counts_ EXCEPT
                             !.total_successes = @ + 1,
                             !.consecutive_successes = streak,
                             !.consecutive_failures = 0]

\* C6: a success that is not stale, reported while Half-Open, increments
\* the success counters, and the breaker moves to Closed exactly when
\* consecutive_successes reaches max_requests, with counts reset and expiry
\* recomputed by the Closed rule.
C6_HalfOpenSuccessCloses == [][C6_HalfOpenSuccessStep]_vars

\* C6 witness: with max_requests = 2 and interval > 0, both trial calls of
\* the first Half-Open generation reported success (neither late): the
\* breaker is Closed by the transition Half-Open -> Closed, counts zero,
\* expiry interval ahead.
C6_Witness ==
    /\ state_ = STATE_CLOSED
    /\ settings_.max_requests = 2
    /\ settings_.interval > 0
    /\ generation_ = 4
    /\ started = 5
    /\ stateChange = <<"cb", STATE_HALF_OPEN, STATE_CLOSED>>
    /\ epoch.late = 0
    /\ counts_ = ZeroCounts
    /\ expiry_ = now + settings_.interval

\* ------------------------------------------------------------------ C7
\* Open is left only by an access made after the expiry has passed, and
\* only for Half-Open; an access made before leaves the state Open.
C7_OnlyByTime ==
    state_ = STATE_OPEN =>
        /\ state_' # STATE_OPEN =>
              (ExpiryPassed /\ IsAccess /\ state_' = STATE_HALF_OPEN)
        /\ (IsAccess /\ ~ExpiryPassed) => state_' = STATE_OPEN

\* C7 as claimed: while Open, an access made before the expiry has passed
\* leaves the state Open, and the first access made after it has passed
\* moves the breaker to Half-Open with generation + 1, counts zero and
\* expiry zero.
C7_ClaimedStep ==
    /\ C7_OnlyByTime
    /\ (state_ = STATE_OPEN /\ IsAccess /\ ExpiryPassed) =>
          /\ state_' = STATE_HALF_OPEN
          /\ generation_' = generation_ + 1
          /\ counts_' = ZeroCounts
          /\ expiry_' = zero

\* C7, the claim as made: violated by a beforeRequest that finds the expiry
\* passed, which leaves requests = 1.
C7_AsClaimed == [][C7_ClaimedStep]_vars

\* C7 as amended: the same, except that when the access is a beforeRequest
\* the trial call it admits is already counted: requests = 1, the other
\* four counters zero.
C7_AmendedStep ==
    /\ C7_OnlyByTime
    /\ (state_ = STATE_OPEN /\ IsAccess /\ ExpiryPassed) =>
          /\ state_' = STATE_HALF_OPEN
          /\ generation_' = generation_ + 1
          /\ expiry_' = zero
          /\ IF IsBeforeRequest
             THEN /\ Admits(generation_')
                  /\ counts_' = [ZeroCounts EXCEPT !.requests = 1]
             ELSE counts_' = ZeroCounts

\* C7 (amended): Open-to-Half-Open is purely time-driven; the access that
\* finds the expiry passed moves the breaker to Half-Open with
\* generation + 1 and expiry zero, and counts zero apart from the request
\* that access admits.
C7_OpenToHalfOpenByTime == [][C7_AmendedStep]_vars

\* C7 witness: the breaker went Open -> Half-Open and the only call of the
\* new generation is the one trial call admitted so far.
C7_Witness ==
    /\ state_ = STATE_HALF_OPEN
    /\ stateChange = <<"cb", STATE_OPEN, STATE_HALF_OPEN>>
    /\ expiry_ = zero
    /\ generation_ = 3
    /\ counts_ = [ZeroCounts EXCEPT !.requests = 1]
    /\ \E c \in InProgress : c.pc = "req" /\ c.token = generation_

\* ------------------------------------------------------------------ C8
\* C8 (step part): an access that finds the breaker Closed with interval > 0
\* and a non-zero expiry that has passed begins a new generation: the state
\* stays Closed, generation + 1, expiry = now + interval, all counts zero
\* except that a call admitted by that access is counted (requests = 1).
\* While the breaker stays Closed its generation changes in no other step;
\* with interval = 0, in no step at all.
C8_ResetStep ==
    state_ = STATE_CLOSED =>
        /\ (settings_.interval > 0 /\ expiry_ # zero /\ ExpiryPassed
              /\ IsAccess) =>
              /\ state_' = STATE_CLOSED
              /\ generation_' = generation_ + 1
              /\ expiry_' = now + settings_.interval
              /\ IF IsBeforeRequest
                 THEN /\ Admits(generation_')
                      /\ counts_' = [ZeroCounts EXCEPT !.requests = 1]
                 ELSE counts_' = ZeroCounts
        /\ (state_' = STATE_CLOSED /\ generation_' # generation_) =>
              (settings_.interval > 0 /\ expiry_ # zero /\ ExpiryPassed
                 /\ IsAccess)

\* C8 (state part): in Closed the expiry is zero exactly when interval is 0.
C8_ZeroExpiry ==
    state_ = STATE_CLOSED => (expiry_ = zero <=> settings_.interval = 0)

\* C8: the Closed periodic reset.
C8_ClosedPeriodicReset == [][C8_ResetStep]_vars /\ []C8_ZeroExpiry

\* C8 witness: a breaker that never changed state is in its second
\* generation, begun by the beforeRequest that has just admitted the one
\* call counted in it.
C8_Witness ==
    /\ state_ = STATE_CLOSED
    /\ settings_.interval > 0
    /\ stateChange = NoChange
    /\ generation_ = 2
    /\ expiry_ = now + settings_.interval
    /\ counts_ = [ZeroCounts EXCEPT !.requests = 1]
    /\ \E c \in InProgress : c.pc = "req" /\ c.token = 2
    /\ \E c \in InProgress : c.pc # "ret" /\ c.token = 1

\* ------------------------------------------------------------------ C9
\* C9 (state part): as long as the breaker is in the generation it was
\* constructed with (it never tripped and its interval did not elapse) and
\* no call has reported a failure, then whenever no call is in flight the
\* counts are requests = total_successes = consecutive_successes = the
\* number of Execute calls made, and the failure counters are zero: no
\* update is lost or counted twice, however the calls interleaved.
C9_AllCounted ==
    (/\ generation_ = 1
     /\ epoch.failed = 0
     /\ \A c \in InProgress : c.pc = "ret")
        => counts_ = [requests |-> started, total_successes |-> started,
                      total_failures |-> 0,
                      consecutive_successes |-> started,
                      consecutive_failures |-> 0]

\* C9 (step part): every call made while the breaker is Closed is admitted.
C9_AdmittedStep ==
    (IsBeforeRequest /\ state_ = STATE_CLOSED) => Admits(generation_')

\* C9: no lost or double-counted updates.
C9_NoLostUpdates == [][C9_AdmittedStep]_vars /\ []C9_AllCounted

\* C9 witness: MaxCalls successful calls, made while the clock advanced but
\* the interval did not elapse, have all finished.
C9_Witness ==
    /\ generation_ = 1
    /\ settings_.interval > 0
    /\ now > 1
    /\ started = MaxCalls
    /\ calls = EmptyBag
    /\ counts_.total_successes = MaxCalls
    /\ counts_.requests = MaxCalls

\* ----------------------------------------------------------------- C10
\* C10: in every reachable state total_successes + total_failures <=
\* requests, the two consecutive counters are never both non-zero, and they
\* are both zero only when no outcome has been recorded in the current
\* generation (no call holding the current generation has reported).
C10_CountsInvariant ==
    /\ counts_.total_successes + counts_.total_failures <= counts_.requests
    /\ ~(counts_.consecutive_successes # 0
           /\ counts_.consecutive_failures # 0)
    /\ (counts_.consecutive_successes = 0
          /\ counts_.consecutive_failures = 0)
         => /\ counts_.total_successes + counts_.total_failures = 0
            /\ epoch.succeeded + epoch.failed = 0

\* C10 witness: a generation in which failures and then a success were
\* recorded, a late report was dropped and a call is still in flight.
C10_Witness ==
    /\ counts_.total_failures > 0
    /\ counts_.consecutive_successes > 0
    /\ counts_.consecutive_failures = 0
    /\ counts_.total_successes + counts_.total_failures < counts_.requests
    /\ epoch.late > 0

\* ----------------------------------------------------------------- C11
\* The Closed periodic reset is due: an access would begin a new generation
\* without changing the state.
ClosedResetDue ==
    state_ = STATE_CLOSED /\ expiry_ # zero /\ ExpiryPassed

\* C11 (step part): the generation never decreases and moves by exactly one
\* at a time; every step that changes the state and every access that finds
\* the Closed periodic reset due adds one to it; it changes in no other
\* step; and the step that adds one to it clears the counts: afterwards all
\* five counters are zero, but for the call that this very step admits
\* into the new generation (requests = 1).
C11_GenerationStep ==
    /\ generation_' \in {generation_, generation_ + 1}
    /\ state_' # state_ => generation_' = generation_ + 1
    /\ (ClosedResetDue /\ IsAccess) => generation_' = generation_ + 1
    /\ generation_' # generation_ =>
          /\ IsAccess
          /\ state_' # state_ \/ ClosedResetDue
          /\ counts_' = IF IsBeforeRequest /\ Admits(generation_')
                        THEN CountsOnRequest(ZeroCounts) ELSE ZeroCounts

\* C11 (state part): the constructor leaves generation 1 (one more than
\* the member's initial 0), the generation is never below that, and
\* wherever the breaker is, beginning a new generation adds exactly one to
\* the generation and leaves all five counters zero.
C11_GenerationState ==
    /\ generation_ >= 1
    /\ (started = 0 /\ now = 1) => generation_ = 1
    /\ toNewGeneration(Self, now).generation = generation_ + 1
    /\ toNewGeneration(Self, now).counts = ZeroCounts

\* C11: the generation is monotonic, moves by one on construction, on every
\* state transition and on every Closed periodic reset and in no other
\* step, and every increment comes with a reset of the five counters.
C11_GenerationMonotonic ==
    [][C11_GenerationStep]_vars /\ []C11_GenerationState

\* C11 witness: a breaker that was constructed (generation 1), reset by
\* its interval (2) and then tripped (3): the first state change it ever
\* made left it in generation 3 with the counts cleared.
C11_Witness ==
    /\ generation_ = 3
    /\ state_ = STATE_OPEN
    /\ settings_.interval > 0
    /\ stateChange = <<"cb", STATE_CLOSED, STATE_OPEN>>
    /\ counts_ = ZeroCounts

\* ----------------------------------------------------------------- C12
\* The step is the wrapped operation of the admitted activation c
\* returning r: c goes from "req" to "after" holding its token and r.
IsRunRequest(c, r) ==
    /\ c \in InProgress
    /\ c.pc = "req"
    /\ calls' = (calls (-) SetToBag({c}))
                    (+) SetToBag({Activation("after", c.token, r.val, r.code)})

\* The step is the end of the activation c: Execute has returned.
IsReturn(c) ==
    /\ c \in InProgress
    /\ c.pc = "ret"
    /\ calls' = calls (-) SetToBag({c})

\* C12 (step part): every step that touches an Execute call is one of
\*  - beforeRequest rejecting: the call ends up returning (default value,
\*    rejection code), and it is not counted;
\*  - beforeRequest admitting: the call holds the generation as its token;
\*  - the wrapped operation of an admitted call that has not run yet
\*    returning some (result, code), the breaker untouched;
\*  - afterRequest of a call whose operation has returned, called with the
\*    call's token and success = (code = 0), the call then returning the
\*    operation's (result, code) as they are;
\*  - a call that returned leaving, the breaker untouched.
\* So a rejected call never runs the operation nor afterRequest, and an
\* admitted call runs each exactly once, in this order.
C12_ExecuteStep ==
    \/ calls' = calls /\ started' = started
    \/ /\ IsBeforeRequest
       /\ LET r == beforeRequest(Self, now)
          IN  IF r.code # ResultCodeOK
              THEN /\ Rejects(r.code)
                   /\ counts_' = currentState(Self, now).counts
              ELSE /\ Admits(r.gen)
                   /\ r.gen = generation_'
                   /\ counts_'.requests =
                         currentState(Self, now).counts.requests + 1
    \/ /\ started' = started
       /\ \/ \E c \in InProgress, r \in OpResults :
                IsRunRequest(c, r) /\ Self' = Self
          \/ \E c \in InProgress :
                /\ IsAfterRequest(c)
                /\ Stored' = afterRequest(Self, c.token, c.code = 0, now)
          \/ \E c \in InProgress : IsReturn(c) /\ Self' = Self

\* C12 (state part): a call waiting for its operation holds no result; a
\* call that was rejected returns the default value with the rejection
\* code; every other call holds what its operation returned; and a failure
\* that was reported for the current generation is in the counts.
C12_ExecuteState ==
    /\ \A c \in InProgress :
          CASE c.pc = "req" -> c.val = 0 /\ c.code = 0
            [] c.pc = "ret" /\ c.code \in {ResultCodeErrOpenState,
                                          ResultCodeErrTooManyRequests} ->
                 c.val = 0 /\ c.token = 0
            [] OTHER -> [val |-> c.val, code |-> c.code] \in OpResults
    /\ counts_.total_failures = epoch.failed
    /\ counts_.total_successes = epoch.succeeded

\* C12: the Execute protocol.
C12_ExecuteProtocol == [][C12_ExecuteStep]_vars /\ []C12_ExecuteState

\* C12 witness: one call ran its operation, which returned code 100; it was
\* reported as a failure and the call returned (1, 100) as the operation
\* gave them; another call was rejected and returned (0, ErrOpenState)
\* without running anything.
C12_Witness ==
    /\ state_ = STATE_OPEN
    /\ \E c \in InProgress : c = Activation("ret", 0, 1, 100)
    /\ \E c \in InProgress :
          c = Activation("ret", 0, 0, ResultCodeErrOpenState)

\* ----------------------------------------------------------------- C13
\* The number of Execute calls in progress that are at position p.
At(p) ==
    BagCardinality([c \in {d \in InProgress : d.pc = p}
                       |-> CopiesIn(c, calls)])

\* C13 (state part, LockSpec): the mutex is held exactly while one caller is
\* inside beforeRequest, inside afterRequest or inside GetState, by that
\* caller alone; so no caller holds it at any other position of Execute,
\* in particular not while its wrapped operation runs, nor between that
\* operation's return and afterRequest.
C13_HeldOnlyInside ==
    /\ mutex_ \in {"free", "beforeRequest", "afterRequest", "GetState"}
    /\ At("before") = (IF mutex_ = "beforeRequest" THEN 1 ELSE 0)
    /\ At("report") = (IF mutex_ = "afterRequest" THEN 1 ELSE 0)

\* C13 (state part, LockSpec): while a wrapped operation is in flight
\* the other callers are not held up by it: if the mutex is free, GetState
\* can take it, a returned operation can be reported and a further call can
\* enter beforeRequest (if there is a caller left to make it); and if the
\* mutex is held, its holder can finish and release it.
C13_OthersProceed ==
    At("req") > 0 =>
        CASE mutex_ = "free" ->
                /\ ENABLED LockGetState
                /\ At("after") > 0 => ENABLED LockAfterRequest
                /\ (BagCardinality(calls) < NThreads /\ started < MaxCalls)
                      => ENABLED LockBeforeRequest
          [] mutex_ = "beforeRequest" -> ENABLED BodyBeforeRequest
          [] mutex_ = "afterRequest" -> ENABLED BodyAfterRequest
          [] OTHER -> ENABLED BodyGetState

\* C13 (step part, LockSpec): a wrapped operation returns without touching
\* the mutex or the breaker, whoever holds the mutex meanwhile.
C13_RunStep ==
    \A c \in InProgress, r \in OpResults :
        IsRunRequest(c, r) => (mutex_' = mutex_ /\ Self' = Self)

\* C13: the mutex is never held while a wrapped operation of its holder
\* runs; it is held only inside beforeRequest, afterRequest and GetState,
\* and operations in flight do not keep other callers from them.
C13_LockNotHeldAcrossOperation ==
    [][C13_RunStep]_vars /\ [](C13_HeldOnlyInside /\ C13_OthersProceed)

\* C13 witness: two wrapped operations are in flight at once while a third
\* party is inside GetState, holding the mutex.
C13_Witness ==
    /\ At("req") = 2
    /\ mutex_ = "GetState"

\* ----------------------------------------------------------------- C14
\* C14 (step part): a step that leaves the state as it was calls no hook,
\* also when it is construction's successor or the Closed periodic reset; a
\* step that changes the state, with a hook configured, calls it exactly
\* once, with (name, previous state, new state), the two states different,
\* and at the time of the call the breaker already is in the new state, in
\* the new generation, with the counts reset.
C14_NotifyStep ==
    /\ state_' = state_ =>
          (notified' = notified /\ stateChange' = stateChange)
    /\ (state_' # state_ /\ settings_.on_state_change) =>
          /\ notified'.count = notified.count + 1
          /\ stateChange' = <<settings_.name, state_, state_'>>
          /\ stateChange'[2] # stateChange'[3]
          /\ notified'.state = state_'
          /\ notified'.generation = generation_ + 1
          /\ notified'.counts = ZeroCounts

\* C14 (state part): setState to the state the breaker is in changes
\* nothing (no new generation, no hook call); without a hook no call is
\* ever recorded; the constructed breaker has made no call; and a breaker
\* that never changed state has made none, whatever its generation.
C14_NotifyState ==
    /\ setState(Self, state_, now) = Self
    /\ ~settings_.on_state_change =>
          (notified = NotNotified /\ stateChange = NoChange)
    /\ (started = 0 /\ now = 1) =>
          (notified = NotNotified /\ stateChange = NoChange)
    /\ notified.count = 0 <=> stateChange = NoChange

\* C14: the state-change notification.
C14_StateChangeNotification ==
    [][C14_NotifyStep]_vars /\ []C14_NotifyState

\* C14 witness: a breaker with a hook went through a Closed periodic reset
\* and then tripped: the hook was called once in three generations, with
\* (name, Closed, Open), when the breaker was already Open in generation 3
\* with zero counts.
C14_Witness ==
    /\ settings_.on_state_change
    /\ generation_ = 3
    /\ notified = [count |-> 1, state |-> STATE_OPEN, generation |-> 3,
                   counts |-> ZeroCounts]
    /\ stateChange = <<settings_.name, STATE_CLOSED, STATE_OPEN>>
    /\ calls = EmptyBag

\* ----------------------------------------------------------------- C15
\* The breaker is as its constructor left it: no call was made and no time
\* has passed (GetState finds nothing to do at the time of construction).
JustConstructed == started = 0 /\ now = 1

\* What the claim says the constructor makes of the Settings st it is
\* given: max_requests 0 becomes 1, timeout 0 becomes 60, an unset
\* ready_to_trip ("default") stands for the default predicate, and name,
\* interval, on_state_change and every non-zero value are kept.
C15_Claimed(st) ==
    [name |-> st.name,
     max_requests |-> IF st.max_requests = 0 THEN 1 ELSE st.max_requests,
     interval |-> st.interval,
     timeout |-> IF st.timeout = 0 THEN 60 ELSE st.timeout,
     ready_to_trip |-> st.ready_to_trip,
     on_state_change |-> st.on_state_change]

\* C15: the settings of the breaker are, for every Settings the
\* constructor can be given, the claimed ones; with ready_to_trip unset the
\* predicate in use is the default one (more than 5 failures in a row);
\* and the constructed breaker is Closed, all counts zero, in generation 1
\* (the member's initial 0, incremented), with expiry zero when interval
\* is 0 and now + interval, which is not zero, otherwise.
C15_Construction ==
    /\ \A st \in SettingsInputs : ConstructSettings(st) = C15_Claimed(st)
    /\ settings_ \in {C15_Claimed(st) : st \in SettingsInputs}
    /\ settings_.max_requests >= 1
    /\ settings_.timeout >= 1
    /\ settings_.ready_to_trip = "default" =>
          \A n \in 0 .. MaxCalls :
              ready_to_trip([ZeroCounts EXCEPT !.requests = n,
                                               !.total_failures = n,
                                               !.consecutive_failures = n])
                <=> n > 5
    /\ JustConstructed =>
          /\ state_ = STATE_CLOSED
          /\ counts_ = ZeroCounts
          /\ generation_ = 1
          /\ stateChange = NoChange
          /\ IF settings_.interval = 0 THEN expiry_ = zero
             ELSE expiry_ = now + settings_.interval /\ expiry_ # zero

\* C15 witness: the breaker constructed from Settings with max_requests 0
\* and timeout 0: 1 and 60 in its settings, Closed, zero counts, zero
\* expiry.
C15_Witness ==
    /\ JustConstructed
    /\ settings_ = C15_Claimed([name |-> "", max_requests |-> 0,
                                interval |-> 0, timeout |-> 0,
                                ready_to_trip |-> "default",
                                on_state_change |-> FALSE])
    /\ settings_.max_requests = 1
    /\ settings_.timeout = 60
    /\ state_ = STATE_CLOSED
    /\ expiry_ = zero
    /\ generation_ = 1

\* ----------------------------------------------------------------- C16
\* The step is a GetState call: no Execute call moves and no time passes.
IsGetState == calls' = calls /\ started' = started /\ now' = now

\* C16 (step part): a GetState leaves the breaker that the lazy check
\* gives, and a GetState made right after it, at the same time, would
\* leave state, generation, counts and expiry as they are.
C16_GetStateStep ==
    IsGetState =>
        /\ Self' = currentState(Self, now)
        /\ currentState(Self', now') = Self'

\* C16 (state part): in every reachable state and at every time the clock
\* can show, the lazy check applied twice gives what it gives applied once;
\* and after an access at the current time a GetState changes nothing.
C16_Idempotent ==
    \A t \in now .. MaxTime :
        LET once == currentState(Self, t)
            twice == currentState(once, t)
        IN  /\ twice.generation = once.generation
            /\ twice.counts = once.counts
            /\ twice.state = once.state
            /\ twice.expiry = once.expiry
            /\ twice = once

\* C16: GetState is idempotent.
C16_GetStateIdempotence ==
    [][C16_GetStateStep]_vars /\ []C16_Idempotent

\* C16 witness: no Execute call was ever made, and GetState calls alone
\* took the breaker through a Closed periodic reset into generation 2,
\* where a further GetState at the same time changes nothing.
C16_Witness ==
    /\ started = 0
    /\ generation_ = 2
    /\ state_ = STATE_CLOSED
    /\ counts_ = ZeroCounts
    /\ expiry_ > now
    /\ currentState(Self, now) = Self

\* ----------------------------------------------------------------- C17
\* C17: in every reachable state, Half-Open has the zero expiry; Open has
\* a non-zero expiry, equal to the time the breaker entered Open (the time
\* its Open generation began) plus timeout; and Closed has the zero expiry
\* exactly when interval is 0, and otherwise the time the current
\* generation began plus interval.
C17_ExpiryByState ==
    CASE state_ = STATE_HALF_OPEN -> expiry_ = zero
      [] state_ = STATE_OPEN ->
            /\ expiry_ # zero
            /\ expiry_ = epoch.began + settings_.timeout
      [] OTHER ->
            /\ state_ = STATE_CLOSED
            /\ expiry_ = zero <=> settings_.interval = 0
            /\ settings_.interval # 0 =>
                  expiry_ = epoch.began + settings_.interval

\* C17 witness: a breaker that closed again after a Half-Open trial, some
\* time after its construction, at a time later than when it tripped; its
\* expiry is interval after the time it closed, and time has passed since.
C17_Witness ==
    /\ state_ = STATE_CLOSED
    /\ stateChange = <<"cb", STATE_HALF_OPEN, STATE_CLOSED>>
    /\ settings_.interval = 2
    /\ epoch.began = 3
    /\ expiry_ = 5
    /\ now = 4

\* ----------------------------------------------------------------- C18
\* The calls in progress that went through beforeRequest before this step
\* and were admitted: each holds the generation its beforeRequest observed.
\* (In Spec a beforeRequest is one step, so the critical sections of any two
\* of them never overlap, and the earlier one is the one that ran first.)
EarlierCalls == {c \in InProgress : c.pc \in {"req", "after"}}

\* C18 as claimed: when a beforeRequest runs, every call whose
\* beforeRequest ran before it observed the same or a later generation
\* than the one this beforeRequest observes.
C18_ClaimedStep ==
    IsBeforeRequest => \A c \in EarlierCalls : c.token >= generation_'

\* C18, the claim as made (the first of two calls observes a state at
\* least as fresh as the second): violated as soon as the generation
\* advances between the two beforeRequest calls.
C18_AsClaimed == [][C18_ClaimedStep]_vars

\* C18 as amended: a beforeRequest observes the generation the breaker has
\* when it returns, which is the same as or later than the generation that
\* every earlier beforeRequest observed.
C18_AmendedStep ==
    IsBeforeRequest =>
        /\ generation_' >= generation_
        /\ \A g \in 0 .. generation_ + 1 : Admits(g) => g = generation_'
        /\ \A c \in EarlierCalls : c.token <= generation_'

\* No call holds a generation later than the breaker's: whatever an
\* earlier beforeRequest observed is at most what a later one will.
C18_TokensNotAhead == \A c \in InProgress : c.token <= generation_

\* C18 (amended): of two calls whose beforeRequest critical sections do
\* not overlap, the one that runs second observes a state at least as
\* fresh (the same or a later generation) as the one that runs first.
C18_LaterCallSeesFresherState ==
    [][C18_AmendedStep]_vars /\ []C18_TokensNotAhead

\* C18 witness: a call admitted in generation 1 is still in progress, and
\* a call whose beforeRequest ran later, after the breaker tripped and
\* half-opened, holds generation 3.
C18_Witness ==
    /\ generation_ = 3
    /\ state_ = STATE_HALF_OPEN
    /\ \E c \in EarlierCalls : c.token = 1
    /\ \E c \in EarlierCalls : c.pc = "req" /\ c.token = 3

\* ----------------------------------------------------------------- C19
\* One further Execute call made at time t whose operation fails: the
\* breaker after beforeRequest and, if the call was admitted, afterRequest.
FailedCall(cb, t) ==
    LET r == beforeRequest(cb, t)
    IN  IF r.code # ResultCodeOK THEN r.cb
        ELSE afterRequest(r.cb, r.gen, FALSE, t)

\* The breaker after n further Execute calls at time t, all failing.
RECURSIVE FailedCalls(_, _, _)
FailedCalls(cb, t, n) ==
    IF n = 0 THEN cb ELSE FailedCalls(FailedCall(cb, t), t, n - 1)

\* More failing calls than any reachable Closed counts need to satisfy
\* ready_to_trip.
TripAttempts == 2 * MaxCalls

\* There is a continuation in which the state of the breaker changes:
\* a call that is still in progress reports, or further Execute calls are
\* made (and fail), or time passes beyond the expiry and the breaker is
\* accessed.
CanChangeAgain ==
    \/ \E c \in EarlierCalls, ok \in BOOLEAN :
          afterRequest(Self, c.token, ok, now).state # state_
    \/ FailedCalls(Self, now, TripAttempts).state # state_
    \/ currentState(Self, expiry_ + 1).state # state_

\* C19, the claim as made: in every reachable state, also after admitted
\* callers abandoned their calls, the state of the breaker can change
\* again.
C19_AsClaimed == []CanChangeAgain

\* The breaker is Half-Open, its trial quota is used up, and no call
\* holding its generation is left to report.
HalfOpenWedged ==
    /\ state_ = STATE_HALF_OPEN
    /\ counts_.requests >= settings_.max_requests
    /\ \A c \in EarlierCalls : c.token # generation_

\* Where the state cannot change again the breaker is Half-Open and
\* wedged, and from there no step changes the breaker at all, whatever
\* calls are made and however much time passes.
C19_WedgedForever ==
    /\ [](~CanChangeAgain <=> HalfOpenWedged)
    /\ [][HalfOpenWedged => (Self' = Self /\ HalfOpenWedged')]_vars

\* C19 witness: all the trial calls of a Half-Open breaker were abandoned;
\* a later call was rejected with ErrTooManyRequests, time passed, and the
\* breaker is Half-Open still, its requests counted and never reported.
C19_Witness ==
    /\ HalfOpenWedged
    /\ ~CanChangeAgain
    /\ calls = SetToBag({Activation("ret", 0, 0,
                                     ResultCodeErrTooManyRequests)})
    /\ counts_ = [ZeroCounts EXCEPT !.requests = settings_.max_requests]
    /\ now > epoch.began

\* ----------------------------------------------------------------- C20
\* The step is the afterRequest of the call c, whose operation failed.
IsFailureReport(c) == IsAfterRequest(c) /\ c.code # 0

\* What the claim says of the step in which ready_to_trip is to be called:
\* it is called once, with the counts that include this failure, and the
\* breaker is Open afterwards exactly if it returned true.
C20_Asked ==
    /\ evaluated'.count = 1
    /\ evaluated'.arg = CountsOnFailure(currentState(Self, now).counts)
    /\ evaluated'.arg.total_failures >= 1
    /\ evaluated'.arg.consecutive_failures >= 1
    /\ evaluated'.result = ready_to_trip(evaluated'.arg)
    /\ state_' = STATE_OPEN <=> evaluated'.result
    /\ state_' = STATE_CLOSED <=> ~evaluated'.result

\* C20 as claimed: ready_to_trip is called in every step that reports a
\* failure while the breaker is Closed, and in no other step; the breaker
\* leaves Closed only by such a call returning true.
C20_ClaimedStep ==
    /\ \A c \in InProgress :
          (IsFailureReport(c) /\ state_ = STATE_CLOSED) => C20_Asked
    /\ evaluated'.count # 0 =>
          \E c \in InProgress : IsFailureReport(c) /\ state_ = STATE_CLOSED
    /\ (state_ = STATE_CLOSED /\ state_' # STATE_CLOSED) =>
          evaluated'.count = 1

C20_AmendedStep ==
    /\ (IsFreshFailure /\ state_ = STATE_CLOSED) => C20_Asked
    /\ evaluated'.count # 0 => (IsFreshFailure /\ state_ = STATE_CLOSED)
    /\ (state_ = STATE_CLOSED /\ state_' # STATE_CLOSED) =>
          evaluated'.count = 1

C21_LazyCheckIdle ==
    state_ = STATE_HALF_OPEN =>
        \A t \in now .. MaxTime + DefaultTimeout + 1 :
            LET cb == currentState(Self, t)
            IN  /\ cb.state = state_
                /\ cb.generation = generation_
                /\ cb.counts = counts_
                /\ cb.expiry = expiry_
                /\ cb = Self

\* C21 (step part): while Half-Open, GetState changes nothing, a
\* beforeRequest changes at most the counts (by the request it admits),
\* and the state is left only by the afterRequest of an outcome that is
\* not stale.
C21_HalfOpenStep ==
    state_ = STATE_HALF_OPEN =>
        /\ state_' # STATE_HALF_OPEN => (IsFreshSuccess \/ IsFreshFailure)
        /\ IsGetState => Self' = Self
        /\ IsBeforeRequest =>
              /\ state_' = state_
              /\ generation_' = generation_
              /\ expiry_' = expiry_
              /\ counts_' \in {counts_, CountsOnRequest(counts_)}

\* C21: Half-Open has no time-driven transition.
C21_HalfOpenNotTimeDriven ==
    [][C21_HalfOpenStep]_vars /\ []C21_LazyCheckIdle

\* C21 witness: the breaker half-opened two time units ago, a trial call
\* was admitted and is still in progress, and the breaker is Half-Open
\* still, in the same generation.
C21_Witness ==
    /\ state_ = STATE_HALF_OPEN
    /\ now = epoch.began + 2
    /\ expiry_ = zero
    /\ epoch.admitted = 1
    /\ \E c \in EarlierCalls : c.token = generation_

\* ----------------------------------------------------------------- C22
\* C22 (step part): when afterRequest gets past the comparison of the
\* token with the generation (the report is not stale), the lazy check
\* has changed nothing, the state it dispatches on is Closed or Half-Open,
\* never Open, and it is the state in which every call of this generation
\* was admitted, this one included.
C22_DispatchStep ==
    \A c \in InProgress :
        (IsAfterRequest(c) /\ c.token = currentState(Self, now).generation)
          => LET cb == currentState(Self, now)
             IN  /\ cb.state # STATE_OPEN
                 /\ cb.state \in {STATE_CLOSED, STATE_HALF_OPEN}
                 /\ cb = Self
                 /\ epoch.admitted >= 1
                 /\ epoch.states = {cb.state}

\* C22 (state part): a call that has not reported yet and holds the
\* current generation was admitted in the state the breaker is in, which
\* is not Open; and whatever the clock shows when it reports, if the lazy
\* check leaves its token equal to the generation, it leaves that state.
C22_TokenFixesState ==
    \A c \in EarlierCalls :
        /\ c.token = generation_ =>
              (state_ # STATE_OPEN /\ epoch.states = {state_})
        /\ \A t \in now .. MaxTime :
              LET cb == currentState(Self, t)
              IN  c.token = cb.generation =>
                    (cb.state # STATE_OPEN /\ cb.state = state_)

\* C22: through Execute, afterRequest never dispatches an outcome with
\* state Open; a report that is not stale finds the state in which its
\* call was admitted.
C22_NoDispatchInOpen ==
    [][C22_DispatchStep]_vars /\ []C22_TokenFixesState

\* C22 witness: calls were admitted before the breaker tripped, the
\* breaker tripped and half-opened, and a trial call admitted in
\* Half-Open has its result and is about to report it, not stale, while a
\* call from before the trip is still in progress.
C22_Witness ==
    /\ state_ = STATE_HALF_OPEN
    /\ epoch.states = {STATE_HALF_OPEN}
    /\ \E c \in InProgress : c.pc = "after" /\ c.token = generation_
    /\ \E c \in EarlierCalls : c.token = 1
    /\ generation_ = 3

\* ----------------------------------------------------------------- C23
\* C23 (state part): whenever the stored state is Open, all five counters
\* are zero.
C23_OpenCountsZero == state_ = STATE_OPEN => counts_ = ZeroCounts

\* C23 (step part): the step that enters Open leaves the counters zero;
\* while the stored state is Open no beforeRequest admits a call into the
\* Open generation, an afterRequest that finds the breaker still Open
\* changes nothing, whatever it reports and whenever its call was
\* admitted, and one that finds the expiry passed does the lazy check
\* only: its outcome is dropped as well.
C23_OpenStep ==
    /\ (state_ # STATE_OPEN /\ state_' = STATE_OPEN) => counts_' = ZeroCounts
    /\ state_ = STATE_OPEN =>
          /\ ~Admits(generation_)
          /\ (IsBeforeRequest /\ state_' = STATE_OPEN) =>
                (Rejects(ResultCodeErrOpenState) /\ counts_' = counts_)
          /\ \A c \in InProgress :
                (IsAfterRequest(c) /\ state_' = STATE_OPEN) =>
                    (Self' = Self /\ c.token # generation_)
          /\ \A c \in InProgress :
                IsAfterRequest(c) =>
                    (Self' = currentState(Self, now)
                       /\ counts_' = ZeroCounts)

\* C23: Open implies zero counts.
C23_OpenImpliesZeroCounts == [][C23_OpenStep]_vars /\ []C23_OpenCountsZero

\* C23 witness: while the breaker is Open a call admitted before it
\* tripped has reported its outcome, another call was rejected, and the
\* counters are all zero.
C23_Witness ==
    /\ state_ = STATE_OPEN
    /\ epoch.late > 0
    /\ epoch.admitted = 0
    /\ counts_ = ZeroCounts
    /\ \E c \in InProgress :
          c.pc = "ret" /\ c.code = ResultCodeErrOpenState
    /\ \E c \in InProgress : c.pc = "ret" /\ c.val = 1

\* ------------------------------------------------------------------ C24
\* The four state changes of the breaker, as (from, to).
C24_StateChanges ==
    {<<STATE_CLOSED, STATE_OPEN>>, <<STATE_OPEN, STATE_HALF_OPEN>>,
     <<STATE_HALF_OPEN, STATE_CLOSED>>, <<STATE_HALF_OPEN, STATE_OPEN>>}

\* C24 (step part): a step that changes the state goes Closed -> Open,
\* Open -> Half-Open, Half-Open -> Closed or Half-Open -> Open, and begins
\* exactly one generation; Open -> Half-Open is the lazy check of any
\* access, the three others are made by an afterRequest only.  Every step
\* advances the generation by at most one, and a step that keeps the state
\* and advances the generation is the Closed reset.  With the hook
\* configured, the hook is called once in a step that changes the state
\* and not at all in any other step, so one operation never changes the
\* state twice.
C24_Step ==
    /\ generation_' \in {generation_, generation_ + 1}
    /\ state_' # state_ =>
          /\ <<state_, state_'>> \in C24_StateChanges
          /\ generation_' = generation_ + 1
          /\ IsAccess
          /\ <<state_, state_'>> # <<STATE_OPEN, STATE_HALF_OPEN>> =>
                \E c \in InProgress : IsAfterRequest(c)
    /\ (state_' = state_ /\ generation_' # generation_) =>
          (state_ = STATE_CLOSED /\ ClosedResetDue)
    /\ settings_.on_state_change =>
          /\ notified'.count =
                IF state_' # state_ THEN notified.count + 1
                ELSE notified.count
          /\ state_' # state_ =>
                stateChange' = <<settings_.name, state_, state_'>>

\* C24 (function part): in every reachable state and at every time the
\* clock can show, what an operation does after the lazy check (count a
\* request, or apply or drop an outcome) changes the state only if the
\* lazy check did not.
C24_OneChangePerOperation ==
    \A t \in now .. MaxTime :
        LET cs == currentState(Self, t)
        IN  /\ cs.generation \in {generation_, generation_ + 1}
            /\ cs.state # state_ => cs.state = STATE_HALF_OPEN
            /\ beforeRequest(Self, t).cb.state = cs.state
            /\ beforeRequest(Self, t).cb.generation = cs.generation
            /\ \A c \in EarlierCalls : \A success \in BOOLEAN :
                  LET ar == afterRequest(Self, c.token, success, t)
                  IN  /\ ar.generation \in {generation_, generation_ + 1}
                      /\ ar.state # cs.state => cs = Self

\* C24: only the four state changes occur, and one public operation makes
\* at most one of them and begins at most one generation.
C24_OnlyFourStateChanges ==
    [][C24_Step]_vars /\ []C24_OneChangePerOperation

\* The hook has seen three state changes, each made by an operation of its
\* own: Closed -> Open, Open -> Half-Open and, last, Half-Open -> Closed.
C24_Witness ==
    /\ settings_.on_state_change
    /\ notified.count = 3
    /\ generation_ = 4
    /\ state_ = STATE_CLOSED
    /\ stateChange = <<settings_.name, STATE_HALF_OPEN, STATE_CLOSED>>

\* ------------------------------------------------------------------ C25
\* The bookkeeping of a Half-Open generation: counts_.requests is the
\* number of calls admitted in it, both success counters are the number of
\* successes reported in it, no failure has been applied in it, and the
\* successes reported are fewer than max_requests.
C25_HalfOpenBooks ==
    state_ = STATE_HALF_OPEN =>
        /\ counts_.requests = epoch.admitted
        /\ counts_.total_successes = epoch.succeeded
        /\ counts_.consecutive_successes = epoch.succeeded
        /\ counts_.total_failures = 0
        /\ epoch.failed = 0
        /\ epoch.succeeded < settings_.max_requests

\* C25 (state part): whenever the breaker is Half-Open with
\* counts.requests = max_requests, fewer calls of the current generation
\* have run afterRequest than were admitted in it, and a call holding the
\* current generation is still between its admission and its
\* afterRequest.
C25_UnreportedTrial ==
    (state_ = STATE_HALF_OPEN /\ counts_.requests = settings_.max_requests) =>
        /\ epoch.succeeded + epoch.failed < epoch.admitted
        /\ \E c \in EarlierCalls : c.token = generation_

\* C25 (step part): the afterRequest of the last of max_requests trial
\* calls that had not reported resolves the Half-Open state: to Closed if
\* it reports a success (then all of them succeeded), to Open if it
\* reports a failure; and the report of a failure by any trial call moves
\* the breaker to Open.
C25_ResolveStep ==
    \A c \in InProgress :
        (IsAfterRequest(c) /\ state_ = STATE_HALF_OPEN
            /\ c.token = generation_) =>
            /\ c.code # 0 => state_' = STATE_OPEN
            /\ (c.code = 0 /\ epoch.admitted = settings_.max_requests
                  /\ epoch.succeeded + 1 = epoch.admitted) =>
                    state_' = STATE_CLOSED
            /\ state_' = STATE_HALF_OPEN =>
                    epoch'.succeeded < settings_.max_requests

\* C25: Half-Open with its quota used up always has a trial call that has
\* not reported; once the whole batch has reported the breaker is Closed
\* or Open.
C25_HalfOpenResolves ==
    [][C25_ResolveStep]_vars /\ []C25_UnreportedTrial /\ []C25_HalfOpenBooks

\* Half-Open with max_requests = 2: both trial calls were admitted, one
\* has reported its success, the other has not reported yet.
C25_Witness ==
    /\ state_ = STATE_HALF_OPEN
    /\ settings_.max_requests = 2
    /\ counts_.requests = 2
    /\ epoch.succeeded = 1
    /\ \E c \in InProgress : c.pc = "after" /\ c.token = generation_

=============================================================================
